---------------------------- MODULE Spec2Model ----------------------------
(***************************************************************************)
(* Model of the peer-to-peer networking core of ctbc (communication.c):    *)
(* the peer pool and its replacement policy, the version handshake, the    *)
(* periodic maintenance callbacks, and the stream framer that cuts the     *)
(* incoming byte stream of a peer into protocol messages.                  *)
(*                                                                         *)
(* Two specifications share the state and the handlers:                    *)
(*   Spec        the event loop seen at the level of whole frames: every   *)
(*               callback of communication.c is one action;                *)
(*   FramerSpec  the same loop with slot 0 fed byte segments through       *)
(*               on_incoming_segment, so that the framer decides which     *)
(*               frames reach handle_incoming_message.                     *)
(***************************************************************************)
EXTENDS Integers, Sequences, FiniteSets, TLC

(***************************************************************************)
(* Bounds of the model.                                                    *)
(***************************************************************************)
\* number of peer slots the pool opens (config.maxOutgoing, scaled)
MaxOutgoing == 1
\* the same while the node is in initial block download (config.maxOutgoingIBD, scaled)
MaxOutgoingIBD == 2
\* number of candidates known at start-up (global.peerCandidateCount)
NumCandidates == 3
\* the clock stops advancing after MaxTicks steps of TimeStep milliseconds
MaxTicks == 1
\* how many times a slot may be rebound after its first bind
MaxRebinds == 1
\* history counters count up to CountCap and stay there
CountCap == 2
\* random_uint64() draws from 0..MaxNonce
MaxNonce == 0
\* write requests a socket may have in flight when a callback starts
MaxPending == 0
\* highest block height the chain collaborator knows of
MaxHeight == 1

(***************************************************************************)
(* Program constants.                                                      *)
(***************************************************************************)
\* sizeof(Header): magic 4, command 12, length 4, checksum 4
HeaderSize == 24
\* sizeof(mainnet.magic)
MagicSize == 4
\* sizeof(MessageCache.buffer), scaled from 65536 to keep the buffer enumerable
Capacity == 64
\* bytes of the enclosing allocation that follow MessageCache.buffer
Slack == 8
\* mainnet.minimalPeerVersion, scaled
MinimalPeerVersion == 2
\* config.getaddrThreshold, scaled from 1000
GetaddrThreshold == 4
\* milliseconds per second (SECOND_TO_MILLISECOND)
MsPerSecond == 1000
\* config.tolerances.handshake in milliseconds, scaled
HandshakeTolerance == 500
\* config.tolerances.peerLife in milliseconds, scaled
PeerLife == 500
\* milliseconds the clock advances between two callbacks
TimeStep == 1000

Slots == 0 .. ((IF MaxOutgoing > MaxOutgoingIBD THEN MaxOutgoing ELSE MaxOutgoingIBD) - 1)
Nonces == 0 .. MaxNonce
Heights == 0 .. MaxHeight
MemSize == Capacity + Slack

Min(a, b) == IF a < b THEN a ELSE b
Max(a, b) == IF a > b THEN a ELSE b
Count(n) == Min(n + 1, CountCap)


(***************************************************************************)
(* Wire format.  A frame is Header || Payload; the header is               *)
(* magic (4) || command (12, zero padded ASCII) || length (u32 LE) ||      *)
(* checksum (4).  Bytes are numbers 0..255.                                *)
(***************************************************************************)
\* mainnet.magic as it lies on the wire
Magic == <<249, 190, 180, 217>>

RECURSIVE Zeros(_)
Zeros(n) == IF n <= 0 THEN <<>> ELSE <<0>> \o Zeros(n - 1)

RECURSIVE Repeat(_, _)
Repeat(b, n) == IF n <= 0 THEN <<>> ELSE <<b>> \o Repeat(b, n - 1)

RECURSIVE SumBytes(_)
SumBytes(s) == IF s = <<>> THEN 0 ELSE Head(s) + SumBytes(Tail(s))

\* the command strings of messages/common.h as ASCII
CommandBytes(cmd) ==
    CASE cmd = "verack" -> <<118, 101, 114, 97, 99, 107>>
      [] cmd = "ping"   -> <<112, 105, 110, 103>>
      [] cmd = "pong"   -> <<112, 111, 110, 103>>
      [] cmd = "block"  -> <<98, 108, 111, 99, 107>>
      [] cmd = "inv"    -> <<105, 110, 118>>
      [] cmd = "getaddr" -> <<103, 101, 116, 97, 100, 100, 114>>
      [] OTHER          -> <<63>>

\* a u32 / u64 little-endian integer of w bytes
RECURSIVE EncodeLE(_, _)
EncodeLE(n, w) == IF w = 0 THEN <<>> ELSE <<n % 256>> \o EncodeLE(n \div 256, w - 1)

\* a little-endian integer read back; a value of 2^30 or more is held as
\* 2^30, so that sums with it stay within 32-bit integers
RECURSIVE DecodeLE(_)
DecodeLE(s) ==
    IF s = <<>> THEN 0
    ELSE LET rest == DecodeLE(Tail(s))
         IN  IF rest >= 4194304 THEN 1073741824 ELSE Head(s) + 256 * rest

\* calculate_data_checksum: the first four bytes of a digest of the payload.
\* The digest stands in for double SHA-256: it depends on every payload byte
\* and on the payload length.
calculate_data_checksum(payload) ==
    LET s == SumBytes(payload)
    IN  <<(s + 93) % 256, (s \div 256 + 246) % 256, (Len(payload) + 224) % 256, 226>>

\* serialize_*_message: header followed by payload
EncodeFrame(cmd, payload) ==
    Magic \o CommandBytes(cmd) \o Zeros(12 - Len(CommandBytes(cmd)))
          \o EncodeLE(Len(payload), 4) \o calculate_data_checksum(payload) \o payload

\* payloads of the commands the model frames
EncodePayload(m) ==
    CASE m.cmd \in {"ping", "pong"} -> EncodeLE(m.nonce, 8)
      [] m.cmd = "block" -> EncodeLE(m.hash, 4)
      [] OTHER -> <<>>

EncodeMessage(m) == EncodeFrame(m.cmd, EncodePayload(m))

\* the bytes buf[from .. from + n - 1] of a memory image as a sequence
Slice(buf, from, n) == [i \in 1 .. n |-> buf[from + i - 1]]

\* parse_message_header: reads the 24 bytes at the front of the buffer
parse_message_header(buf) ==
    [ magic    |-> Slice(buf, 0, 4),
      command  |-> Slice(buf, 4, 12),
      length   |-> DecodeLE(Slice(buf, 16, 4)),
      checksum |-> Slice(buf, 20, 4) ]

starts_with_magic(buf, p) == Slice(buf, p, MagicSize) = Magic

\* find_first_magic: the smallest p with p + sizeof(magic) < maxLength at which
\* the magic starts, or -1
find_first_magic(buf, maxLength) ==
    LET hits == { p \in 0 .. (MemSize - MagicSize) :
                     p + MagicSize < maxLength /\ starts_with_magic(buf, p) }
    IN  IF hits = {} THEN -1 ELSE CHOOSE p \in hits : \A q \in hits : p <= q

\* checksum_match: checksum of the declared payload against the header's
checksum_match(buf) ==
    LET h == parse_message_header(buf)
    IN  calculate_data_checksum(Slice(buf, HeaderSize, h.length)) = h.checksum

\* parse_buffer_into_message: dispatch on the command; an unknown command or
\* a body of the wrong size is an error.  Of the commands the program parses,
\* the ones the byte streams of FramerSpec carry are decoded here; the frames
\* of the others reach Spec already decoded.
parse_buffer_into_message(buf) ==
    LET h == parse_message_header(buf)
        body == Slice(buf, HeaderSize, h.length)
        is(cmd) == h.command = CommandBytes(cmd) \o Zeros(12 - Len(CommandBytes(cmd)))
    IN  CASE is("verack") -> [error |-> h.length # 0, message |-> [cmd |-> "verack"]]
          [] is("inv")    -> [error |-> h.length # 0, message |-> [cmd |-> "inv"]]
          [] is("ping")   -> [error |-> h.length # 8,
                              message |-> [cmd |-> "ping", nonce |-> DecodeLE(body)]]
          [] is("pong")   -> [error |-> h.length # 8,
                              message |-> [cmd |-> "pong", nonce |-> DecodeLE(body)]]
          [] is("block")  -> [error |-> h.length # 4,
                              message |-> [cmd |-> "block", hash |-> DecodeLE(body)]]
          [] OTHER        -> [error |-> TRUE, message |-> [cmd |-> "unknown"]]

(***************************************************************************)
(* memcpy(dst, src, n) inside one memory image.  When the two regions do   *)
(* not overlap the result is the copy.  When they overlap the behaviour is *)
(* undefined: a build whose memcpy copies upwards yields the copy, a build *)
(* whose memcpy copies downwards (from the last byte to the first) yields  *)
(* CopyDown.  `backward' says which build this is.                         *)
(***************************************************************************)
CopyUp(buf, dst, src, n) ==
    [i \in DOMAIN buf |-> IF i >= dst /\ i < dst + n THEN buf[src + (i - dst)] ELSE buf[i]]

\* copying from the last byte to the first: the byte for offset j of the
\* destination is read from the source after the bytes above it were written,
\* so with dst < src it is the original byte k, 2k, ... further up that lies
\* outside the part already overwritten (k = src - dst)
CopyDown(buf, dst, src, n) ==
    IF dst >= src THEN CopyUp(buf, dst, src, n)
    ELSE LET k == src - dst
         IN  [i \in DOMAIN buf |->
                IF i >= dst /\ i < dst + n
                THEN buf[i + k * (((dst + n - 1 - i) \div k) + 1)]
                ELSE buf[i]]

Overlap(dst, src, n) == n > 0 /\ dst < src + n /\ src < dst + n

memcpy(buf, dst, src, n, backward) ==
    IF Overlap(dst, src, n) /\ backward THEN CopyDown(buf, dst, src, n)
    ELSE CopyUp(buf, dst, src, n)


(***************************************************************************)
(* State.                                                                  *)
(***************************************************************************)
VARIABLES
    peers,           \* global.peers[i]
    sock,            \* what the runtime holds for peers[i].socket
    cache,           \* the SocketContext.streamCache behind peers[i].socket.data
    peerCandidates,  \* global.peerCandidates[0 .. peerCandidateCount - 1]
    peerCount,       \* global.peerCount
    ibdMode,         \* global.ibdMode
    chain,           \* the chain collaborator: main tip and full-block heights
    now,             \* get_now(), milliseconds
    crashed,         \* the process died on a null pointer
    hist,            \* per slot: what happened since the slot was last bound
    script,          \* FramerSpec: the bytes the remote of slot 0 will send
    cursor,          \* FramerSpec: how many of them have been delivered
    handled,         \* FramerSpec: the messages handed to handle_incoming_message
    backward,        \* this build's memcpy copies overlapping regions downwards
    loopRunning,     \* uv_run has not been stopped by terminate_main_loop
    api,             \* the client of global.apiSocket and the last payload it sent
    timerTable       \* global.timerTable: per row its interval and its timer

vars == << peers, sock, cache, peerCandidates, peerCount, ibdMode, chain, now,
           crashed, hist, script, cursor, handled, backward, loopRunning, api,
           timerTable >>

NoCandidate == -1

\* calloc'ed SocketContext: bufferIndex 0, buffer zeroed
\* written: one past the highest offset on_incoming_segment has written to
EmptyCache ==
    [bufferIndex |-> 0, buffer |-> [i \in 0 .. (MemSize - 1) |-> 0], written |-> 0]

\* reset_peer: every field of the slot zeroed
EmptyPeer ==
    [ candidacy       |-> NoCandidate,
      relationship    |-> "OUR_SERVER",
      connectionStart |-> 0,
      handshakeStart  |-> 0,
      acceptThem      |-> FALSE,
      acceptUs        |-> FALSE,
      chain_height    |-> 0,
      nonce           |-> 0,
      pingSent        |-> 0,
      pongReceived    |-> 0,
      latencies       |-> <<>>,
      requesting      |-> 0 ]

\* uv_tcp_t before uv_tcp_init
UnusedSocket ==
    [ state      |-> "unused",   \* unused, connecting, open, closing
      closeCb    |-> FALSE,      \* uv_close was given on_handle_close
      connectReq |-> FALSE,      \* the connect request has not called back yet
      reading    |-> FALSE,      \* uv_read_start is in force
      writes     |-> <<>> ]      \* commands whose write has not called back yet

EmptyHist ==
    [ binds          |-> 0,      \* initialize_peer calls on the slot, ever
      activations    |-> 0,      \* on_handshake_success reached getaddr / ping
      sentEarly      |-> {},     \* getaddr, ping sent while the handshake was incomplete
      sentUnshaken   |-> {},     \* commands other than version, verack sent to an unshaken peer
      replaceCalls   |-> 0,      \* replace_peer calls
      uvCloses       |-> 0,      \* uv_close calls on the socket
      connectFailed  |-> FALSE,  \* on_peer_connect reported an error
      readFailed     |-> "no",   \* on_incoming_segment saw nread < 0: no, error, eof
      boundToDisabled |-> FALSE, \* the candidate was disabled when the slot was bound
      lowVersion     |-> FALSE,  \* a version below the minimum was received
      pinged         |-> FALSE,  \* ping_peer was called
      pingWritten    |-> FALSE,  \* the write of the ping with the current nonce completed
      staleSample    |-> FALSE,  \* a pong sample was measured from another pingSent
      prevPingSamples |-> 0,     \* samples the ping before the last ping_peer ended with
      pingSamples    |-> 0,      \* samples pongs recorded since the last ping_peer
      added          |-> {},     \* add_address_as_candidate: address and timestamp stored
      lastAddr       |-> <<>>,   \* the records of the last addr message
      sentOnClosing  |-> FALSE,  \* a message was passed to uv_write while the handle was closing
      writeFailed    |-> FALSE,  \* uv_write refused a write, or a write completed with an error
      unreleased     |-> {},     \* allocations no callback will free: write, read
      timedOut       |-> {},     \* timeouts a liveness tick found: handshake, life
      outstanding    |-> 0 ]     \* getdata(block) sent and not answered by a block

(***************************************************************************)
(* The handlers work on a world record and return the world they leave.    *)
(* tape is the sequence of values random_uint64() will return during the   *)
(* callback, draws how many of them have been taken.                       *)
(***************************************************************************)
World(tape) ==
    [ peers |-> peers, sock |-> sock, cache |-> cache, cands |-> peerCandidates,
      peerCount |-> peerCount, ibdMode |-> ibdMode, chain |-> chain, now |-> now,
      crashed |-> crashed, hist |-> hist, tape |-> tape, draws |-> 0 ]

Commit(w) ==
    /\ peers' = w.peers
    /\ sock' = w.sock
    /\ cache' = w.cache
    /\ peerCandidates' = w.cands
    /\ peerCount' = w.peerCount
    /\ ibdMode' = w.ibdMode
    /\ chain' = w.chain
    /\ crashed' = w.crashed
    /\ hist' = w.hist

Tapes == [1 .. 2 -> Nonces]
NoTape == <<0, 0>>

random_uint64(w) == w.tape[(w.draws % Len(w.tape)) + 1]

\* peer_hand_shaken: both handshake flags set
peer_hand_shaken(peer) == peer.acceptThem /\ peer.acceptUs

\* is_hash_empty(networking.requesting)
is_peer_idle(peer) == peer_hand_shaken(peer) /\ peer.requesting = 0

disable_candidate(w, c) ==
    IF c # NoCandidate THEN [w EXCEPT !.cands[c].status = "disabled"] ELSE w

\* replace_peer without the uv_is_closing test
replace_peer_always_close(w, p) ==
    [w EXCEPT !.cache[p] = EmptyCache,
              !.hist[p].replaceCalls = Count(@),
              !.sock[p].state = "closing",
              !.sock[p].closeCb = TRUE,
              !.sock[p].reading = FALSE,
              !.hist[p].uvCloses = Count(@)]

\* replace_peer: a fresh SocketContext on the handle, then uv_close with
\* on_handle_close unless the handle is already closing
replace_peer(w, p) ==
    LET w1 == [w EXCEPT !.cache[p] = EmptyCache,
                        !.hist[p].replaceCalls = Count(@)]
    IN  IF w.sock[p].state = "closing"
        THEN w1
        ELSE [w1 EXCEPT !.sock[p].state = "closing",
                        !.sock[p].closeCb = TRUE,
                        !.sock[p].reading = FALSE,
                        !.hist[p].uvCloses = Count(@)]

\* send_message + write_buffer_to_socket: the frame is handed to uv_write,
\* which queues it, or refuses it when the handle is closing
send_message(w, p, cmd, arg) ==
    LET early == IF peer_hand_shaken(w.peers[p]) THEN {} ELSE {cmd} \cap {"getaddr", "ping"}
        other == IF peer_hand_shaken(w.peers[p]) THEN {} ELSE {cmd} \ {"version", "verack"}
        w1 == [w EXCEPT !.hist[p].sentEarly = @ \cup early,
                        !.hist[p].sentUnshaken = @ \cup other]
    IN  IF w.sock[p].state = "closing"
        THEN [w1 EXCEPT !.hist[p].unreleased = @ \cup {"write"},
                        !.hist[p].sentOnClosing = TRUE,
                        !.hist[p].writeFailed = TRUE]
        ELSE [w1 EXCEPT !.sock[p].writes = Append(@, cmd)]

\* number of samples the latency ring holds
LatencyRing == 1

\* record_latency: the sample enters the ring, pushing out the oldest
record_latency(w, p, latency) ==
    LET old == w.peers[p].latencies
        ring == IF Len(old) < LatencyRing THEN Append(old, latency)
                ELSE Append(Tail(old), latency)
    IN  [w EXCEPT !.peers[p].latencies = ring]

is_latency_fully_tested(peer) == Len(peer.latencies) = LatencyRing

RECURSIVE SumSeq(_)
SumSeq(s) == IF s = <<>> THEN 0 ELSE Head(s) + SumSeq(Tail(s))

\* average_peer_latency, rounded down to a millisecond
average_peer_latency(peer) ==
    IF peer.latencies = <<>> THEN 0 ELSE SumSeq(peer.latencies) \div Len(peer.latencies)

ping_peer(w, p) ==
    LET peer == w.peers[p]
        w1 == IF peer.pingSent # 0 /\ peer.pongReceived = 0
              THEN record_latency(w, p, w.now - peer.pingSent)
              ELSE w
        nonce == random_uint64(w1)
        w2 == [w1 EXCEPT !.peers[p].nonce = nonce,
                         !.peers[p].pongReceived = 0,
                         !.hist[p].pinged = TRUE,
                         !.hist[p].pingWritten = FALSE,
                         !.hist[p].prevPingSamples =
                             w.hist[p].pingSamples
                             + (IF peer.pingSent # 0 /\ peer.pongReceived = 0 THEN 1 ELSE 0),
                         !.hist[p].pingSamples = 0,
                         !.draws = @ + 1]
    IN  send_message(w2, p, "ping", nonce)

\* max_full_block_height_from_genesis()
max_full_block_height_from_genesis(w) == w.chain.full

\* on_handshake_success without the initial-block-download test
on_handshake_success_admits_all(w, p) ==
    LET w1 == [w EXCEPT !.hist[p].activations = Count(@)]
        w2 == IF Cardinality(DOMAIN w.cands) < GetaddrThreshold
              THEN send_message(w1, p, "getaddr", 0)
              ELSE w1
    IN  ping_peer(w2, p)

on_handshake_success(w, p) ==
    IF w.ibdMode /\ w.peers[p].chain_height < max_full_block_height_from_genesis(w)
    THEN replace_peer(w, p)
    ELSE LET w1 == [w EXCEPT !.hist[p].activations = Count(@)]
             w2 == IF Cardinality(DOMAIN w.cands) < GetaddrThreshold
                   THEN send_message(w1, p, "getaddr", 0)
                   ELSE w1
         IN  ping_peer(w2, p)

\* process_incoming_block: the chain takes the block that extends its full blocks
process_incoming_block(w, hash) ==
    IF hash = w.chain.full + 1 /\ hash <= w.chain.tip
    THEN [w EXCEPT !.chain.full = hash]
    ELSE w

\* process_incoming_block_header: the chain takes the header that extends its tip
process_incoming_block_header(w, height) ==
    IF height = w.chain.tip + 1 THEN [w EXCEPT !.chain.tip = height] ELSE w

\* round(now / SECOND_TO_MILLISECOND(1))
RoundSeconds(ms) == (ms + MsPerSecond \div 2) \div MsPerSecond

\* a uint32_t is kept as two halves of 16 bits
Half == 65536
Word32(n) == [hi |-> n \div Half, lo |-> n % Half]
Less32(a, b) == a.hi < b.hi \/ (a.hi = b.hi /\ a.lo < b.lo)

\* a - b in uint32_t
Sub32(a, b) ==
    LET lo == a.lo - b.lo
        borrow == IF lo < 0 THEN 1 ELSE 0
    IN  [hi |-> (a.hi - b.hi - borrow + 2 * Half) % Half, lo |-> (lo + Half) % Half]

\* a + b in uint32_t
Add32(a, b) ==
    LET lo == a.lo + b.lo
    IN  [hi |-> (a.hi + b.hi + lo \div Half) % Half, lo |-> lo % Half]

\* HOUR_TO_SECOND(2)
TwoHours == 7200

\* an address: the last two bytes of the IPv4-mapped prefix, then the host
is_ipv4(ip) == ip[1] = 255 /\ ip[2] = 255

\* the adjustment stops at 0 instead of wrapping
timestampForRecord_saturating(timestamp) ==
    IF Less32(timestamp, Word32(TwoHours)) THEN Word32(0)
    ELSE Sub32(timestamp, Word32(TwoHours))

\* uint32_t timestampForRecord = record->timestamp - HOUR_TO_SECOND(2)
timestampForRecord(timestamp) == Sub32(timestamp, Word32(TwoHours))

\* add_address_as_candidate: one entry per address, the last call wins
add_address_as_candidate(w, p, net_addr, timestamp) ==
    [w EXCEPT !.hist[p].added =
                  {e \in @ : e.ip # net_addr} \cup {[ip |-> net_addr, timestamp |-> timestamp]}]

RECURSIVE AddrFrom(_, _, _, _)
AddrFrom(w, p, addr_list, i) ==
    IF i > Len(addr_list) THEN w
    ELSE LET record == addr_list[i]
         IN  IF is_ipv4(record.ip)
             THEN AddrFrom(add_address_as_candidate(w, p, record.ip,
                                                    timestampForRecord(record.timestamp)),
                           p, addr_list, i + 1)
             ELSE AddrFrom(w, p, addr_list, i + 1)

\* a peer version the handshake must not accept is accepted
accepts_any_version(version) == TRUE

\* ptrPayloadTyped->version >= mainnet.minimalPeerVersion
accepts_version(version) == version >= MinimalPeerVersion

handle_incoming_message(w, p, m) ==
    LET c == w.peers[p].candidacy
        w0 == [w EXCEPT !.cands[c].timestamp = RoundSeconds(w.now)]
    IN  CASE m.cmd = "version" ->
               LET w1 == [w0 EXCEPT
                            !.peers[p].acceptThem =
                                IF accepts_version(m.version) THEN TRUE ELSE @,
                            !.hist[p].lowVersion =
                                IF m.version < MinimalPeerVersion THEN TRUE ELSE @,
                            !.peers[p].chain_height = m.start_height,
                            !.cands[c].services = m.services]
               IN  IF peer_hand_shaken(w1.peers[p]) THEN on_handshake_success(w1, p) ELSE w1
          [] m.cmd = "verack" ->
               LET w1 == [w0 EXCEPT !.peers[p].acceptUs = TRUE]
                   w2 == send_message(w1, p, "verack", 0)
               IN  IF peer_hand_shaken(w2.peers[p]) THEN on_handshake_success(w2, p) ELSE w2
          [] m.cmd = "addr" ->
               AddrFrom([w0 EXCEPT !.hist[p].lastAddr = m.addr_list], p, m.addr_list, 1)
          [] m.cmd = "ping" -> send_message(w0, p, "pong", m.nonce)
          [] m.cmd = "pong" ->
               IF m.nonce = w0.peers[p].nonce
               THEN LET w1 == [w0 EXCEPT !.peers[p].pongReceived = w.now,
                                         !.hist[p].staleSample = @ \/ ~w.hist[p].pingWritten,
                                         !.hist[p].pingSamples = Count(@)]
                        w2 == record_latency(w1, p, w.now - w0.peers[p].pingSent)
                    IN  IF is_latency_fully_tested(w2.peers[p])
                        THEN [w2 EXCEPT !.cands[c].averageLatency =
                                            average_peer_latency(w2.peers[p])]
                        ELSE w2
               ELSE w0
          [] m.cmd = "headers" -> process_incoming_block_header(w0, m.height)
          [] m.cmd = "block" ->
               LET w1 == process_incoming_block(w0, m.hash)
               IN  [w1 EXCEPT !.peers[p].requesting = 0,
                              !.hist[p].outstanding = Max(0, @ - 1)]
          [] OTHER -> w0


(***************************************************************************)
(* Timer callbacks.                                                        *)
(***************************************************************************)
check_peer(w, p) ==
    LET peer == w.peers[p]
        timeSinceConnection == w.now - peer.handshakeStart
        timeoutForLateHandshake ==
            ~peer_hand_shaken(peer) /\ timeSinceConnection > HandshakeTolerance
    IN  IF timeoutForLateHandshake
        THEN replace_peer(disable_candidate(
                 [w EXCEPT !.hist[p].timedOut = @ \cup {"handshake"}], peer.candidacy), p)
        ELSE w

\* check_peer_life that also disables the candidate
check_peer_life_disabling(w, p) ==
    IF w.now - w.peers[p].connectionStart > PeerLife
    THEN replace_peer(disable_candidate(
             [w EXCEPT !.hist[p].timedOut = @ \cup {"life"}], w.peers[p].candidacy), p)
    ELSE w

check_peer_life(w, p) ==
    IF w.now - w.peers[p].connectionStart > PeerLife
    THEN replace_peer([w EXCEPT !.hist[p].timedOut = @ \cup {"life"}], p)
    ELSE w

\* the loop body of check_peers_connectivity
CheckOnePeer(w, p) ==
    LET w1 == check_peer(w, p)
    IN  IF PeerLife # 0 THEN check_peer_life(w1, p) ELSE w1

RECURSIVE CheckFrom(_, _)
CheckFrom(w, i) == IF i >= w.peerCount THEN w ELSE CheckFrom(CheckOnePeer(w, i), i + 1)

check_peers_connectivity(w) == CheckFrom(w, 0)

RECURSIVE PingFrom(_, _)
PingFrom(w, i) ==
    IF i >= w.peerCount THEN w
    ELSE PingFrom(IF peer_hand_shaken(w.peers[i]) THEN ping_peer(w, i) ELSE w, i + 1)

ping_peers(w) == PingFrom(w, 0)

count_idle_peers(w) ==
    Cardinality({i \in 0 .. (w.peerCount - 1) : is_peer_idle(w.peers[i])})

\* find_missing_blocks(hashes, n): up to n blocks above the full-block height,
\* lowest first; a block is named by its height
find_missing_blocks(w, n) ==
    [k \in 1 .. Min(n, w.chain.tip - w.chain.full) |-> w.chain.full + k]

\* the hash a null pointer stands for in send_getdata_for_block
NullHash == -1

send_getheaders(w, p) == send_message(w, p, "getheaders", w.chain.tip)

\* send_getdata_for_block: memcpy(iv.hash, hash, 32) then send_message
send_getdata_for_block(w, p, hash) ==
    LET w1 == send_message(w, p, "getdata", hash)
    IN  [w1 EXCEPT !.hist[p].outstanding = IF hash # NullHash THEN Count(@) ELSE @]

RECURSIVE ExchangeFrom(_, _, _, _)
ExchangeFrom(w, i, blocksDesired, blockIndex) ==
    IF i >= w.peerCount THEN w
    ELSE LET peer == w.peers[i]
         IN  IF ~peer_hand_shaken(peer)
             THEN ExchangeFrom(w, i + 1, blocksDesired, blockIndex)
             ELSE LET w1 == IF peer.chain_height > w.chain.tip
                            THEN send_getheaders(w, i) ELSE w
                      take == is_peer_idle(peer) /\ blockIndex < Len(blocksDesired)
                      blockToRequest ==
                          IF take THEN blocksDesired[blockIndex + 1] ELSE NullHash
                      w2 == send_getdata_for_block(w1, i, blockToRequest)
                  IN  ExchangeFrom(w2, i + 1, blocksDesired,
                                   IF take THEN blockIndex + 1 ELSE blockIndex)

exchange_data_with_peers(w) ==
    ExchangeFrom(w, 0, find_missing_blocks(w, count_idle_peers(w)), 0)

\* the tick reads through a null pointer: some handshaken peer gets no block
ExchangePassesNull(w) ==
    LET found == Len(find_missing_blocks(w, count_idle_peers(w)))
        shaken == {i \in 0 .. (w.peerCount - 1) : peer_hand_shaken(w.peers[i])}
        idle == {i \in shaken : is_peer_idle(w.peers[i])}
    IN  shaken # idle \/ Cardinality(idle) > found

\* resetIBDMode: maxFullBlockHeight * 1.0 / tip > 0.95 switches IBD off
resetIBDMode(w) ==
    LET ratioAbove == IF w.chain.tip = 0 THEN w.chain.full > 0
                      ELSE w.chain.full * 100 > 95 * w.chain.tip
    IN  [w EXCEPT !.ibdMode = ~ratioAbove]

(***************************************************************************)
(* Candidate selection and binding.                                        *)
(***************************************************************************)
\* is_peer: some slot of the pool is bound to the candidate
is_peer(w, c) == \E i \in 0 .. (w.peerCount - 1) : w.peers[i].candidacy = c

\* milliseconds in a day (DAY_TO_MILLISECOND)
DayMs == 86400000
\* config.tolerances.latency in milliseconds
LatencyTolerance == 2000

\* rate_candidate without the penalty for a disabled candidate
rate_candidate_ignoring_status(w, c, jitter) ==
    LET cand == w.cands[c]
        deltaT == w.now - cand.timestamp * MsPerSecond
        timestampScore == IF deltaT > 7 * DayMs THEN 8
                          ELSE IF deltaT > DayMs THEN 10
                          ELSE 5
        fixed == timestampScore + jitter
    IN  IF cand.averageLatency # 0
        THEN [n |-> fixed * cand.averageLatency + 10 * LatencyTolerance,
              d |-> cand.averageLatency]
        ELSE [n |-> fixed + 10, d |-> 1]

\* rate_candidate in tenths of a point; jitter is random_betwen_0_1() * 2 in
\* tenths.  The latency term tolerance / averageLatency is kept as a fraction:
\* the score is n / d.
rate_candidate(w, c, jitter) ==
    LET cand == w.cands[c]
        statusScore == IF cand.status = "disabled" THEN -100 ELSE 0
        deltaT == w.now - cand.timestamp * MsPerSecond
        timestampScore == IF deltaT > 7 * DayMs THEN 8
                          ELSE IF deltaT > DayMs THEN 10
                          ELSE 5
        fixed == statusScore + timestampScore + jitter
    IN  IF cand.averageLatency # 0
        THEN [n |-> fixed * cand.averageLatency + 10 * LatencyTolerance,
              d |-> cand.averageLatency]
        ELSE [n |-> fixed + 10, d |-> 1]

ScoreAbove(a, b) == a.n * b.d > b.n * a.d

\* the jitter samples a call may draw, in tenths
Jitters == {0, 15}
JitterTapes(w) == [0 .. Cardinality(DOMAIN w.cands) -> Jitters]

RECURSIVE PickFrom(_, _, _, _, _)
PickFrom(w, jit, i, best, bestScore) ==
    IF i >= Cardinality(DOMAIN w.cands) THEN best
    ELSE IF is_peer(w, i) THEN PickFrom(w, jit, i + 1, best, bestScore)
    ELSE LET score == rate_candidate(w, i, jit[i + 1])
         IN  IF ScoreAbove(score, bestScore)
             THEN PickFrom(w, jit, i + 1, i, score)
             ELSE PickFrom(w, jit, i + 1, best, bestScore)

\* pick_best_nonpeer_candidate: candidate 0 starts as the best
pick_best_nonpeer_candidate(w, jit) ==
    PickFrom(w, jit, 0, 0, rate_candidate(w, 0, jit[0]))

\* initialize_peer: reset the slot, stamp it, bind the candidate, start the
\* TCP connect
initialize_peer(w, p, c) ==
    [w EXCEPT !.peers[p] = [EmptyPeer EXCEPT !.connectionStart = w.now,
                                            !.handshakeStart = w.now,
                                            !.candidacy = c],
              !.sock[p] = [UnusedSocket EXCEPT !.state = "connecting",
                                              !.connectReq = TRUE],
              !.hist[p] = [EmptyHist EXCEPT
                             !.binds = w.hist[p].binds + 1,
                             !.boundToDisabled = (w.cands[c].status = "disabled")]]

connect_to_best_candidate_as_peer(w, p, jit) ==
    initialize_peer(w, p, pick_best_nonpeer_candidate(w, jit))

\* on_handle_close: the close completed, bind the slot again
on_handle_close(w, p, jit) == connect_to_best_candidate_as_peer(w, p, jit)

RECURSIVE ConnectFrom(_, _, _, _)
ConnectFrom(w, i, outgoing, jits) ==
    IF i >= outgoing THEN w
    ELSE ConnectFrom(
            [connect_to_best_candidate_as_peer(w, i, jits[i]) EXCEPT !.peerCount = @ + 1],
            i + 1, outgoing, jits)

\* connect_to_initial_peers
connect_to_initial_peers(w, jits) ==
    LET outgoingConfig == IF w.ibdMode THEN MaxOutgoingIBD ELSE MaxOutgoing
    IN  ConnectFrom(w, 0, Min(outgoingConfig, Cardinality(DOMAIN w.cands)), jits)

\* on_peer_connect that leaves the candidate of a failed connect as it is
on_peer_connect_keeps_candidate(w, p, error) ==
    LET w0 == [w EXCEPT !.sock[p].connectReq = FALSE]
    IN  IF error
        THEN LET w1 == [w0 EXCEPT !.hist[p].connectFailed = TRUE]
             IN  IF w.peers[p].relationship = "OUR_SERVER" THEN replace_peer(w1, p) ELSE w1
        ELSE LET w1 == [w0 EXCEPT !.cache[p] = EmptyCache,
                                  !.sock[p].state = "open"]
                 w2 == send_message(w1, p, "version", 0)
             IN  [w2 EXCEPT !.sock[p].reading = TRUE]

\* on_peer_connect
on_peer_connect(w, p, error) ==
    LET w0 == [w EXCEPT !.sock[p].connectReq = FALSE]
    IN  IF error
        THEN LET w1 == [w0 EXCEPT !.hist[p].connectFailed = TRUE]
             IN  IF w.peers[p].relationship = "OUR_SERVER"
                 THEN replace_peer(disable_candidate(w1, w.peers[p].candidacy), p)
                 ELSE w1
        ELSE LET w1 == [w0 EXCEPT !.cache[p] = EmptyCache,
                                  !.sock[p].state = "open"]
                 w2 == send_message(w1, p, "version", 0)
             IN  [w2 EXCEPT !.sock[p].reading = TRUE]

\* on_message_attempted
on_message_attempted(w, p, status) ==
    LET req == Head(w.sock[p].writes)
        w0 == [w EXCEPT !.sock[p].writes = Tail(@)]
    IN  IF status # 0 THEN [w0 EXCEPT !.hist[p].unreleased = @ \cup {"write"},
                                      !.hist[p].writeFailed = TRUE]
        ELSE CASE req = "ping" -> [w0 EXCEPT !.peers[p].pingSent = w.now,
                                             !.hist[p].pingWritten = TRUE]
               [] req = "version" -> [w0 EXCEPT !.peers[p].handshakeStart = w.now]
               [] OTHER -> w0


(***************************************************************************)
(* The stream framer.                                                      *)
(***************************************************************************)
\* the size the runtime suggests to allocate_read_buffer (64 KiB), scaled
\* like Capacity
SuggestedSize == 64
\* what the part of a read buffer that the read did not fill holds
JunkByte == 217

\* extract_message_from_stream_buffer on the cache c of slot p.  Returns the
\* world, the cache and the messages handed to handle_incoming_message.
RECURSIVE ExtractLoop(_, _, _, _)
ExtractLoop(w, p, c, out) ==
    LET magicOffset == find_first_magic(c.buffer, c.bufferIndex)
    IN  IF magicOffset < 0 THEN [w |-> w, c |-> c, out |-> out]
        ELSE
        LET c1 == IF magicOffset # 0
                  THEN [c EXCEPT
                          !.buffer = memcpy(c.buffer, 0, magicOffset,
                                            c.bufferIndex - magicOffset, backward),
                          !.bufferIndex = @ - magicOffset]
                  ELSE c
            header == parse_message_header(c1.buffer)
            messageSize == HeaderSize + header.length
        IN  IF c1.bufferIndex >= messageSize
            THEN LET parsed == parse_buffer_into_message(c1.buffer)
                     deliver == checksum_match(c1.buffer) /\ ~parsed.error
                     w1 == IF deliver
                           THEN handle_incoming_message(w, p, parsed.message)
                           ELSE w
                     out1 == IF deliver THEN Append(out, parsed.message) ELSE out
                     c2 == [c1 EXCEPT
                              !.buffer = memcpy(c1.buffer, 0, messageSize,
                                                c1.bufferIndex - messageSize, backward),
                              !.bufferIndex = @ - messageSize]
                 IN  ExtractLoop(w1, p, c2, out1)
            ELSE [w |-> w, c |-> c1, out |-> out]

\* an extraction that drops what is left when it is shorter than a header
extract_dropping_short_header(w, p, c) ==
    LET r == ExtractLoop(w, p, c, <<>>)
    IN  IF r.c.bufferIndex < HeaderSize THEN [r EXCEPT !.c.bufferIndex = 0] ELSE r

extract_message_from_stream_buffer(w, p, c) == ExtractLoop(w, p, c, <<>>)

\* on_incoming_segment with nread >= 0: memcpy of buf->len bytes (the nread
\* bytes read, then what the allocation held before) at the cursor, the cursor
\* moved by nread, then the extraction.  Bytes written past the buffer land in
\* the memory that follows it.  A replace_peer during the extraction leaves a
\* fresh SocketContext on the handle.
on_incoming_segment(w, p, data, len) ==
    LET c == w.cache[p]
        image == data \o Repeat(JunkByte, len - Len(data))
        c1 == [c EXCEPT
                 !.buffer = [i \in DOMAIN c.buffer |->
                               IF i >= c.bufferIndex /\ i < c.bufferIndex + len
                               THEN image[i - c.bufferIndex + 1] ELSE c.buffer[i]],
                 !.bufferIndex = @ + Len(data),
                 !.written = Max(@, c.bufferIndex + len)]
        r == extract_message_from_stream_buffer(w, p, c1)
    IN  [ w   |-> IF r.w.sock[p].state = "closing" THEN r.w
                  ELSE [r.w EXCEPT !.cache[p] = r.c],
          out |-> r.out ]

\* on_incoming_segment with nread < 0
on_incoming_segment_failed(w, p, eof) ==
    IF eof
    THEN [w EXCEPT !.sock[p].reading = FALSE,
                   !.hist[p].unreleased = @ \cup {"read"},
                   !.hist[p].readFailed = "eof"]
    ELSE [w EXCEPT !.sock[p].state = "closing",
                   !.sock[p].closeCb = FALSE,
                   !.sock[p].reading = FALSE,
                   !.hist[p].uvCloses = Count(@),
                   !.hist[p].unreleased = @ \cup {"read"},
                   !.hist[p].readFailed = "error"]

(***************************************************************************)
(* What the remote may send.                                               *)
(***************************************************************************)
\* messages a remote sends, already framed and decoded
Messages ==
    {[cmd |-> "version", version |-> MinimalPeerVersion, start_height |-> h,
      services |-> 1] : h \in {0, MaxHeight}}
    \cup {[cmd |-> "version", version |-> MinimalPeerVersion - 1, start_height |-> 0,
            services |-> 1]}
    \cup {[cmd |-> "verack"]}
    \cup {[cmd |-> "headers", height |-> h] : h \in 1 .. MaxHeight}
    \cup {[cmd |-> "block", hash |-> h] : h \in 1 .. MaxHeight}

Inv == [cmd |-> "inv"]
Pong1 == [cmd |-> "pong", nonce |-> 1]
Block2 == [cmd |-> "block", hash |-> 2]

\* a frame whose checksum does not match its payload
CorruptChecksum(frame) == [frame EXCEPT ![21] = (@ + 1) % 256]

\* a header that declares more payload than the buffer can ever hold
OversizeHeader ==
    Magic \o CommandBytes("block") \o Zeros(7)
          \o EncodeLE(Capacity - HeaderSize + 1, 4) \o <<1, 2, 3, 4>>

\* byte streams for the remote of slot 0: what is sent and the frames a
\* framer has to hand over
Scripts ==
    { [kind |-> "valid",
       bytes |-> EncodeMessage(Inv) \o EncodeMessage(Pong1),
       frames |-> <<Inv, Pong1>>],
      [kind |-> "prefixed",
       bytes |-> <<7, 249, 190>> \o EncodeMessage(Block2) \o EncodeMessage(Inv),
       frames |-> <<Block2, Inv>>],
      [kind |-> "corrupt",
       bytes |-> EncodeMessage(Inv) \o CorruptChecksum(EncodeMessage(Block2))
                     \o EncodeMessage(Pong1),
       frames |-> <<Inv, Pong1>>],
      [kind |-> "oversize",
       bytes |-> OversizeHeader \o EncodeMessage(Inv),
       frames |-> <<>>],
      [kind |-> "nomagic",
       bytes |-> Repeat(7, Capacity + 4),
       frames |-> <<>>] }

NoScript == [kind |-> "none", bytes |-> <<>>, frames |-> <<>>]


(***************************************************************************)
(* Initial state: the process has started, no slot is bound yet.           *)
(***************************************************************************)
\* the clock when the process starts, milliseconds
StartTime == 1000

\* the rows of timerTableAutomatic, named by their callbacks
TimerRows ==
    {"exchange_data_with_peers", "save_chain_data", "terminate_main_loop", "resetIBDMode",
     "check_peers_connectivity", "ping_peers", "print_node_status"}

\* .onlyOnce of a row
onlyOnce(r) == r = "terminate_main_loop"

\* a timer that was never started; fired and flip record its callbacks
IdleTimer == [active |-> FALSE, timeout |-> 0, repeat |-> 0, fired |-> 0, flip |-> FALSE]

\* uv_timer_start(handle, cb, timeout, repeat)
uv_timer_start(timeout, repeat) ==
    [IdleTimer EXCEPT !.active = TRUE, !.timeout = timeout, !.repeat = repeat]

\* the loop body of setup_timers without the test of the interval
start_timer_unconditionally(r, interval) ==
    IF onlyOnce(r) THEN uv_timer_start(interval, 0) ELSE uv_timer_start(0, interval)

\* the loop body of setup_timers for one row
start_timer(r, interval) ==
    IF interval > 0
    THEN IF onlyOnce(r) THEN uv_timer_start(interval, 0) ELSE uv_timer_start(0, interval)
    ELSE IdleTimer

\* setup_timers, periods being config.periods
setup_timers(periods) ==
    [r \in TimerRows |-> [interval |-> periods[r], timer |-> start_timer(r, periods[r])]]

InitialCandidates ==
    [c \in 0 .. (NumCandidates - 1) |->
        [status |-> "active", timestamp |-> 0, averageLatency |-> 0, services |-> 0]]

InitCommon ==
    /\ peers = [p \in Slots |-> EmptyPeer]
    /\ sock = [p \in Slots |-> UnusedSocket]
    /\ cache = [p \in Slots |-> EmptyCache]
    /\ peerCandidates = InitialCandidates
    /\ peerCount = 0
    /\ chain = [tip |-> 1, full |-> 0]
    /\ now = StartTime
    /\ crashed = FALSE
    /\ hist = [p \in Slots |-> EmptyHist]
    /\ cursor = 0
    /\ handled = <<>>
    /\ loopRunning = TRUE
    /\ api = [client |-> "none", payload |-> <<>>]
    /\ timerTable = setup_timers([r \in TimerRows |-> 0])

Init ==
    /\ InitCommon
    /\ ibdMode = FALSE
    /\ script = NoScript
    /\ backward = FALSE

FramerInit ==
    /\ InitCommon
    /\ ibdMode = FALSE
    /\ script \in Scripts
    /\ backward \in BOOLEAN

(***************************************************************************)
(* Actions: one per callback of the event loop.                            *)
(***************************************************************************)
Quiet == \A p \in Slots : Len(sock[p].writes) <= MaxPending
Env == UNCHANGED << now, script, cursor, handled, backward, loopRunning, api, timerTable >>

ConnectToInitialPeers ==
    /\ ~crashed
    /\ peerCount = 0
    /\ \E jits \in [Slots -> JitterTapes(World(NoTape))] :
          Commit(connect_to_initial_peers(World(NoTape), jits))
    /\ Env

OnPeerConnect(p) ==
    /\ ~crashed
    /\ sock[p].connectReq
    /\ \E error \in BOOLEAN :
          /\ sock[p].state = "closing" => error
          /\ Commit(on_peer_connect(World(NoTape), p, error))
    /\ Env

OnMessageAttempted(p) ==
    /\ ~crashed
    /\ sock[p].writes # <<>>
    /\ ~sock[p].connectReq
    /\ \E status \in {0, -1} :
          /\ sock[p].state = "closing" => status # 0
          /\ Commit(on_message_attempted(World(NoTape), p, status))
    /\ Env

\* a whole frame of the alphabet arrives and passes the framer
HandleFrom(p, alphabet) ==
    /\ ~crashed
    /\ sock[p].reading
    /\ Quiet
    /\ \E m \in alphabet, tape \in Tapes :
          Commit(handle_incoming_message(World(tape), p, m))
    /\ Env

HandleIncomingMessage(p) == HandleFrom(p, Messages)

OnIncomingSegmentFailed(p) ==
    /\ ~crashed
    /\ sock[p].reading
    /\ \E eof \in BOOLEAN : Commit(on_incoming_segment_failed(World(NoTape), p, eof))
    /\ Env

CheckPeersConnectivity ==
    /\ ~crashed
    /\ peerCount > 0
    /\ Commit(check_peers_connectivity(World(NoTape)))
    /\ Env

PingPeers ==
    /\ ~crashed
    /\ peerCount > 0
    /\ Quiet
    /\ \E tape \in Tapes : Commit(ping_peers(World(tape)))
    /\ Env

\* passing a null hash to memcpy kills the process or sends whatever was read
ExchangeDataWithPeers ==
    /\ ~crashed
    /\ peerCount > 0
    /\ Quiet
    /\ \/ Commit(exchange_data_with_peers(World(NoTape)))
       \/ /\ ExchangePassesNull(World(NoTape))
          /\ Commit([World(NoTape) EXCEPT !.crashed = TRUE])
    /\ Env

ResetIBDMode ==
    /\ ~crashed
    /\ peerCount > 0
    /\ Commit(resetIBDMode(World(NoTape)))
    /\ Env

\* the runtime has cancelled the connect and the writes of the closed handle
OnHandleClose(p) ==
    /\ ~crashed
    /\ sock[p].state = "closing"
    /\ sock[p].closeCb
    /\ ~sock[p].connectReq
    /\ sock[p].writes = <<>>
    /\ hist[p].binds <= MaxRebinds
    /\ \E jit \in JitterTapes(World(NoTape)) :
          Commit(on_handle_close(World(NoTape), p, jit))
    /\ Env

Tick ==
    /\ ~crashed
    /\ now < StartTime + MaxTicks * TimeStep
    /\ now' = now + TimeStep
    /\ UNCHANGED << peers, sock, cache, peerCandidates, peerCount, ibdMode, chain,
                    crashed, hist, script, cursor, handled, backward, loopRunning, api,
                    timerTable >>

Next ==
    \/ ConnectToInitialPeers
    \/ \E p \in Slots : OnPeerConnect(p)
    \/ \E p \in Slots : OnMessageAttempted(p)
    \/ \E p \in Slots : HandleIncomingMessage(p)
    \/ \E p \in Slots : OnIncomingSegmentFailed(p)
    \/ CheckPeersConnectivity
    \/ PingPeers
    \/ ExchangeDataWithPeers
    \/ ResetIBDMode
    \/ \E p \in Slots : OnHandleClose(p)
    \/ Tick

Spec == Init /\ [][Next]_vars

(***************************************************************************)
(* FramerSpec: slot 0 connects and its remote sends the script in segments *)
(* of many sizes.  The read buffer the runtime hands over has the          *)
(* suggested size; what the read did not fill is unwritten memory.         *)
(***************************************************************************)
\* the sizes a segment may have when rest bytes are still to come: cuts inside
\* the magic, the header and the payload, and everything that is left
SegmentSizes(rest) ==
    {n \in {1, 3, 20, 24, 27, 30, rest} : n <= rest /\ n <= SuggestedSize}

OnIncomingSegment(p) ==
    /\ ~crashed
    /\ sock[p].reading
    /\ Quiet
    /\ cursor < Len(script.bytes)
    /\ \E nread \in SegmentSizes(Len(script.bytes) - cursor) :
          LET data == SubSeq(script.bytes, cursor + 1, cursor + nread)
              r == on_incoming_segment(World(NoTape), p, data, SuggestedSize)
          IN  /\ cache[p].bufferIndex + nread <= MemSize
              /\ Commit(r.w)
              /\ handled' = handled \o r.out
              /\ cursor' = cursor + nread
    /\ UNCHANGED << now, script, backward, loopRunning, api, timerTable >>

FramerConnect ==
    /\ peerCount = 0
    /\ \E jits \in [Slots -> [0 .. NumCandidates -> {0}]] :
          Commit(connect_to_initial_peers(World(NoTape), jits))
    /\ Env

\* the connect of slot 0 succeeds
FramerPeerConnect ==
    /\ sock[0].connectReq
    /\ Commit(on_peer_connect(World(NoTape), 0, FALSE))
    /\ Env

FramerNext ==
    \/ FramerConnect
    \/ FramerPeerConnect
    \/ OnMessageAttempted(0)
    \/ OnIncomingSegment(0)

FramerSpec == FramerInit /\ [][FramerNext]_vars

(***************************************************************************)
(* PoolSpec: the pool starts in initial block download, which opens        *)
(* MaxOutgoingIBD slots, and its remotes never answer: connects succeed or *)
(* fail, handshakes time out, slots are replaced.                          *)
(***************************************************************************)
PoolInit ==
    /\ InitCommon
    /\ ibdMode = TRUE
    /\ script = NoScript
    /\ backward = FALSE

PoolNext ==
    \/ ConnectToInitialPeers
    \/ \E p \in Slots : OnPeerConnect(p)
    \/ \E p \in Slots : OnMessageAttempted(p)
    \/ CheckPeersConnectivity
    \/ \E p \in Slots : OnHandleClose(p)
    \/ Tick

PoolSpec == PoolInit /\ [][PoolNext]_vars

(***************************************************************************)
(* PingSpec: the remote of a slot completes the handshake and sends pings  *)
(* and pongs, with the nonces the program draws and one it never draws.    *)
(***************************************************************************)
PingMessages ==
    {[cmd |-> "version", version |-> MinimalPeerVersion, start_height |-> MaxHeight,
      services |-> 1]}
    \cup {[cmd |-> "verack"]}
    \cup {[cmd |-> "ping", nonce |-> 1]}
    \cup {[cmd |-> "pong", nonce |-> n] : n \in 0 .. (MaxNonce + 1)}

HandlePingTraffic(p) == HandleFrom(p, PingMessages)

PingNext ==
    \/ ConnectToInitialPeers
    \/ \E p \in Slots : OnPeerConnect(p)
    \/ \E p \in Slots : OnMessageAttempted(p)
    \/ \E p \in Slots : HandlePingTraffic(p)
    \/ PingPeers
    \/ Tick

PingSpec == Init /\ [][PingNext]_vars

(***************************************************************************)
(* MismatchSpec: the remotes speak a protocol version below the minimum.   *)
(* MismatchLive adds what the runtime guarantees: the clock advances, the  *)
(* liveness timer fires, and requests and closes get their callbacks.      *)
(***************************************************************************)
MismatchMessages ==
    {[cmd |-> "version", version |-> MinimalPeerVersion - 1, start_height |-> h,
      services |-> 1] : h \in {0, MaxHeight}}
    \cup {[cmd |-> "verack"]}
    \cup {[cmd |-> "ping", nonce |-> 1]}

HandleMismatchTraffic(p) == HandleFrom(p, MismatchMessages)

MismatchNext ==
    \/ ConnectToInitialPeers
    \/ \E p \in Slots : OnPeerConnect(p)
    \/ \E p \in Slots : OnMessageAttempted(p)
    \/ \E p \in Slots : HandleMismatchTraffic(p)
    \/ CheckPeersConnectivity
    \/ \E p \in Slots : OnHandleClose(p)
    \/ Tick

MismatchSpec == Init /\ [][MismatchNext]_vars

MismatchLive ==
    /\ MismatchSpec
    /\ WF_vars(Tick)
    /\ WF_vars(CheckPeersConnectivity)
    /\ \A p \in Slots : WF_vars(OnPeerConnect(p))
    /\ \A p \in Slots : WF_vars(OnMessageAttempted(p))
    /\ \A p \in Slots : WF_vars(OnHandleClose(p))

(***************************************************************************)
(* IbdSpec: initial block download is on; the remotes complete the         *)
(* handshake announcing a chain of height 0 or MaxHeight, and a block may  *)
(* arrive that raises the height of the local full chain.                  *)
(***************************************************************************)
IbdMessages ==
    {[cmd |-> "version", version |-> MinimalPeerVersion, start_height |-> h,
      services |-> 1] : h \in {0, MaxHeight}}
    \cup {[cmd |-> "verack"]}
    \cup {[cmd |-> "block", hash |-> 1]}

HandleIbdTraffic(p) == HandleFrom(p, IbdMessages)

IbdNext ==
    \/ ConnectToInitialPeers
    \/ \E p \in Slots : OnPeerConnect(p)
    \/ \E p \in Slots : OnMessageAttempted(p)
    \/ \E p \in Slots : HandleIbdTraffic(p)
    \/ \E p \in Slots : OnHandleClose(p)

IbdSpec == PoolInit /\ [][IbdNext]_vars

(***************************************************************************)
(* AdminSpec: the admin listener.  One client at a time connects to        *)
(* global.apiSocket and sends payloads; every read gets a fresh buffer     *)
(* from allocate_read_buffer, whose memory is whatever the heap held.      *)
(***************************************************************************)
\* longest payload an admin client sends
MaxApiLen == 5

\* INSTRUCTION_KILL, "KILL"
InstructionKill == <<75, 73, 76, 76>>

\* the bytes admin payloads are made of: I, K, L
ApiBytes == {73, 75, 76}

ApiPayloads == UNION {[1 .. n -> ApiBytes] : n \in 0 .. MaxApiLen}

\* what the first bytes of a freshly allocated read buffer may hold: zeroes,
\* junk, or the instruction an earlier, freed read buffer held
HeapContents ==
    {Repeat(0, Len(InstructionKill)), Repeat(JunkByte, Len(InstructionKill)),
     InstructionKill}

\* memcmp(buf->base, INSTRUCTION_KILL, strlen(INSTRUCTION_KILL)) == 0 on a
\* buffer whose first nread bytes are the payload
KillMatches(payload, heap) ==
    \A i \in 1 .. Len(InstructionKill) :
        (IF i <= Len(payload) THEN payload[i] ELSE heap[i]) = InstructionKill[i]

OnIncomingApiConnection ==
    /\ loopRunning
    /\ api.client # "open"
    /\ \E status \in {0, -1}, accepted \in BOOLEAN :
          api' = IF status < 0 THEN api
                 ELSE [api EXCEPT !.client = IF accepted THEN "open" ELSE "closed"]
    /\ UNCHANGED << peers, sock, cache, peerCandidates, peerCount, ibdMode, chain, now,
                    crashed, hist, script, cursor, handled, backward, loopRunning,
                    timerTable >>

\* on_incoming_segment_to_api with nread >= 0; terminate_main_loop stops the loop
OnIncomingSegmentToApi ==
    /\ loopRunning
    /\ api.client = "open"
    /\ \E payload \in ApiPayloads, heap \in HeapContents :
          /\ api' = [api EXCEPT !.payload = payload]
          /\ loopRunning' = ~KillMatches(payload, heap)
    /\ UNCHANGED << peers, sock, cache, peerCandidates, peerCount, ibdMode, chain, now,
                    crashed, hist, script, cursor, handled, backward, timerTable >>

\* on_incoming_segment_to_api with nread < 0
OnIncomingSegmentToApiFailed ==
    /\ loopRunning
    /\ api.client = "open"
    /\ \E eof \in BOOLEAN :
          api' = IF eof THEN api ELSE [api EXCEPT !.client = "closed"]
    /\ UNCHANGED << peers, sock, cache, peerCandidates, peerCount, ibdMode, chain, now,
                    crashed, hist, script, cursor, handled, backward, loopRunning,
                    timerTable >>

AdminNext ==
    \/ OnIncomingApiConnection
    \/ OnIncomingSegmentToApi
    \/ OnIncomingSegmentToApiFailed

AdminSpec == Init /\ [][AdminNext]_vars

(***************************************************************************)
(* RateSpec: the process starts at some time of the clock with a registry  *)
(* whose first candidate was saved with some status, last-seen timestamp   *)
(* and average latency, and picks its first peers.                         *)
(***************************************************************************)
\* average latencies a saved candidate may carry, milliseconds (0: untested)
SavedLatencies == {0, 1, 2, 500, 1000, LatencyTolerance \div 2 + 1, LatencyTolerance}

\* how long before start-up a saved candidate was last seen, milliseconds
SavedAges == {0, DayMs, DayMs + MsPerSecond, 7 * DayMs, 7 * DayMs + MsPerSecond}

SavedCandidates ==
    [status : {"active", "disabled"}, timestamp : {0}, averageLatency : SavedLatencies,
     services : {0}]

RateInit ==
    /\ peers = [p \in Slots |-> EmptyPeer]
    /\ sock = [p \in Slots |-> UnusedSocket]
    /\ cache = [p \in Slots |-> EmptyCache]
    /\ \E saved \in SavedCandidates : peerCandidates = [InitialCandidates EXCEPT ![0] = saved]
    /\ peerCount = 0
    /\ ibdMode = FALSE
    /\ chain = [tip |-> 1, full |-> 0]
    /\ now \in SavedAges
    /\ crashed = FALSE
    /\ hist = [p \in Slots |-> EmptyHist]
    /\ script = NoScript
    /\ cursor = 0
    /\ handled = <<>>
    /\ backward = FALSE
    /\ loopRunning = TRUE
    /\ api = [client |-> "none", payload |-> <<>>]
    /\ timerTable = setup_timers([r \in TimerRows |-> 0])

RateNext == ConnectToInitialPeers

RateSpec == RateInit /\ [][RateNext]_vars

(***************************************************************************)
(* AddrSpec: the remotes gossip addresses.                                 *)
(***************************************************************************)
\* most records an addr message carries
MaxAddrRecords == 2

\* two IPv4-mapped addresses and one that is not
GossipIps == {<<255, 255, 1>>, <<255, 255, 2>>, <<32, 1, 1>>}

\* record timestamps around the two-hour adjustment and at the top of uint32_t
GossipTimestamps ==
    {Word32(0), Word32(TwoHours - 1), Word32(TwoHours), Word32(Half + 1),
     [hi |-> Half - 1, lo |-> Half - 1]}

AddrRecords == [ip : GossipIps, timestamp : GossipTimestamps]

AddrMessages ==
    {[cmd |-> "addr", addr_list |-> l] :
        l \in UNION {[1 .. n -> AddrRecords] : n \in 0 .. MaxAddrRecords}}

HandleAddrTraffic(p) == HandleFrom(p, AddrMessages)

AddrNext ==
    \/ ConnectToInitialPeers
    \/ \E p \in Slots : OnPeerConnect(p)
    \/ \E p \in Slots : OnMessageAttempted(p)
    \/ \E p \in Slots : HandleAddrTraffic(p)

AddrSpec == Init /\ [][AddrNext]_vars

(***************************************************************************)
(* SchedSpec: the timers.  Every period of the configuration is 0 or a     *)
(* number of time units; a timer carries the time left until it is due.    *)
(* No peer is bound, so the callbacks find an empty pool.                  *)
(***************************************************************************)
\* longest period of the configuration, in time units
MaxPeriod == 2

SchedInit ==
    /\ peers = [p \in Slots |-> EmptyPeer]
    /\ sock = [p \in Slots |-> UnusedSocket]
    /\ cache = [p \in Slots |-> EmptyCache]
    /\ peerCandidates = InitialCandidates
    /\ peerCount = 0
    /\ ibdMode = FALSE
    /\ chain = [tip |-> 1, full |-> 0]
    /\ now = StartTime
    /\ crashed = FALSE
    /\ hist = [p \in Slots |-> EmptyHist]
    /\ script = NoScript
    /\ cursor = 0
    /\ handled = <<>>
    /\ backward = FALSE
    /\ loopRunning = TRUE
    /\ api = [client |-> "none", payload |-> <<>>]
    /\ \E periods \in [TimerRows -> {0, 1, MaxPeriod}] : timerTable = setup_timers(periods)

\* what the callback of a row does to the program state
RunTimerCallback(w, r) ==
    CASE r = "exchange_data_with_peers" -> exchange_data_with_peers(w)
      [] r = "resetIBDMode" -> resetIBDMode(w)
      [] r = "check_peers_connectivity" -> check_peers_connectivity(w)
      [] r = "ping_peers" -> ping_peers(w)
      [] OTHER -> w

\* the runtime finds the timer of a row due and calls its callback; a timer
\* with a repeat is started again, terminate_main_loop stops the loop
FireTimer(r) ==
    /\ loopRunning
    /\ timerTable[r].timer.active
    /\ timerTable[r].timer.timeout = 0
    /\ timerTable' = [timerTable EXCEPT
                        ![r].timer.fired = Count(@),
                        ![r].timer.flip = ~@,
                        ![r].timer.active = timerTable[r].timer.repeat > 0,
                        ![r].timer.timeout = timerTable[r].timer.repeat]
    /\ loopRunning' = (r # "terminate_main_loop")
    /\ \E tape \in Tapes : Commit(RunTimerCallback(World(tape), r))
    /\ UNCHANGED << now, script, cursor, handled, backward, api >>

\* a time unit passes while no timer is due
AdvanceTimers ==
    /\ loopRunning
    /\ \E r \in TimerRows : timerTable[r].timer.active
    /\ \A r \in TimerRows : timerTable[r].timer.active => timerTable[r].timer.timeout > 0
    /\ timerTable' = [r \in TimerRows |->
                        IF timerTable[r].timer.active
                        THEN [timerTable[r] EXCEPT !.timer.timeout = @ - 1]
                        ELSE timerTable[r]]
    /\ UNCHANGED << peers, sock, cache, peerCandidates, peerCount, ibdMode, chain, now,
                    crashed, hist, script, cursor, handled, backward, loopRunning, api >>

SchedNext ==
    \/ \E r \in TimerRows : FireTimer(r)
    \/ AdvanceTimers

SchedSpec == SchedInit /\ [][SchedNext]_vars

\* the runtime runs due timers and lets time pass
SchedLive ==
    /\ SchedSpec
    /\ \A r \in TimerRows : WF_vars(FireTimer(r))
    /\ WF_vars(AdvanceTimers)

(***************************************************************************)
(* The handshake.                                                          *)
(***************************************************************************)
\* C1: within one bound lifetime of a slot the peer enters Active (the
\* getaddr / first ping part of on_handshake_success) at most once, and no
\* getaddr and no ping is sent to a peer whose handshake is not complete.
C1_ActiveExactlyOnce ==
    \A p \in Slots :
        /\ hist[p].activations <= 1
        /\ hist[p].sentEarly = {}

(***************************************************************************)
(* The stream framer.                                                      *)
(***************************************************************************)
IsPrefix(a, b) == Len(a) <= Len(b) /\ SubSeq(b, 1, Len(a)) = a

\* C2: round trip.  Whatever the segments a stream of valid frames is cut
\* into, the handler is handed the original messages in order, each once: at
\* any moment a prefix of them, and all of them once the last byte is in.
C2_RoundTrip ==
    script.kind = "valid" =>
        /\ IsPrefix(handled, script.frames)
        /\ cursor = Len(script.bytes) => handled = script.frames

\* C3: resync.  A stream of valid frames with non-magic bytes in front, or
\* with one frame of corrupt checksum between two valid ones, hands over the
\* valid frames in order and nothing else, does not close the connection, and
\* leaves the buffer empty once the last byte is in.
C3_Resync ==
    script.kind \in {"prefixed", "corrupt"} =>
        /\ IsPrefix(handled, script.frames)
        /\ sock[0].state # "closing"
        /\ cursor = Len(script.bytes) =>
              /\ handled = script.frames
              /\ cache[0].bufferIndex = 0

\* C4: the length cursor of every stream buffer stays within the capacity of
\* the buffer, and no segment is copied to an offset past its end.
C4_BufferWithinCapacity ==
    \A p \in Slots :
        /\ cache[p].bufferIndex <= Capacity
        /\ cache[p].written <= Capacity

\* C5: a callback never returns with a complete header at the front of the
\* buffer that declares more payload than the buffer can hold: such a header
\* makes the framer replace the peer, which leaves a fresh buffer behind.
C5_OversizeRejected ==
    \A p \in Slots :
        ~ ( /\ cache[p].bufferIndex >= HeaderSize
            /\ starts_with_magic(cache[p].buffer, 0)
            /\ parse_message_header(cache[p].buffer).length > Capacity - HeaderSize )

(***************************************************************************)
(* Data exchange.                                                          *)
(***************************************************************************)
\* C6: a peer has at most one block request outstanding, and its requesting
\* hash is nonzero exactly while a getdata for a block is unanswered.
C6_OneBlockInFlight ==
    \A p \in Slots :
        /\ hist[p].outstanding <= 1
        /\ (peers[p].requesting # 0) <=> (hist[p].outstanding > 0)

C8_ReadFailureReplaces ==
    \A p \in Slots :
        hist[p].readFailed # "no" => sock[p].state = "closing" /\ sock[p].closeCb

\* C9: a slot whose connect failed has its candidate disabled and its
\* replacement scheduled: replace_peer was called and the socket is closing
\* with on_handle_close as its close callback.
C9_ConnectFailure ==
    \A p \in Slots :
        hist[p].connectFailed =>
            /\ peerCandidates[peers[p].candidacy].status = "disabled"
            /\ hist[p].replaceCalls >= 1
            /\ sock[p].state = "closing"
            /\ sock[p].closeCb

\* C9 witness: the connect of a slot failed and on_peer_connect made the first
\* replace_peer call on it
C9_ConnectFailed ==
    \E p \in Slots :
        /\ hist[p].connectFailed
        /\ hist[p].replaceCalls = 1
        /\ hist[p].timedOut = {}

\* how many of the two timeouts of a liveness tick apply to slot p
HandshakeLate(p) ==
    ~peer_hand_shaken(peers[p]) /\ now - peers[p].handshakeStart > HandshakeTolerance
LifeExhausted(p) == PeerLife # 0 /\ now - peers[p].connectionStart > PeerLife

C11_BoundToEnabledCandidate ==
    \A p \in Slots :
        peers[p].candidacy # NoCandidate => ~hist[p].boundToDisabled

\* the candidates no slot of the pool is bound to
Nonpeers == {c \in DOMAIN peerCandidates : ~is_peer(World(NoTape), c)}

\* C12: whatever the jitter samples, pick_best_nonpeer_candidate returns a
\* candidate that no slot is bound to (when there is one), no other such
\* candidate scores higher, and of those that score the same it is the one
\* of lowest index.
C12_PickBestNonpeer ==
    (peerCount > 0 /\ Nonpeers # {}) =>
        \A jit \in JitterTapes(World(NoTape)) :
            LET w == World(NoTape)
                best == pick_best_nonpeer_candidate(w, jit)
                score(c) == rate_candidate(w, c, jit[c + 1])
            IN  /\ best \in Nonpeers
                /\ \A c \in Nonpeers :
                      /\ ~ScoreAbove(score(c), score(best))
                      /\ ~ScoreAbove(score(best), score(c)) => best <= c

(***************************************************************************)
(* Ping and pong.                                                          *)
(***************************************************************************)
\* C13: between two pings, pongs record at most one latency sample, and they
\* record none for a peer that was never pinged.
C13_PingNonceLaw ==
    \A p \in Slots :
        /\ hist[p].pingSamples <= 1
        /\ hist[p].pingSamples > 0 => hist[p].pinged

(***************************************************************************)
(* Protocol mismatch.                                                      *)
(***************************************************************************)
\* the last value the clock of the model takes
ClockEnd == StartTime + MaxTicks * TimeStep

Commands(p) == {sock[p].writes[i] : i \in DOMAIN sock[p].writes}

C16_ReleasedOnEveryPath == \A p \in Slots : hist[p].unreleased = {}

(***************************************************************************)
(* The admin instruction.                                                  *)
(***************************************************************************)
\* C17: the loop has been stopped if and only if the last admin payload is
\* at least as long as the instruction and begins with it; any other
\* payload, whatever the read buffer held before, leaves the loop running.
C17_KillLaw ==
    ~loopRunning <=> IsPrefix(InstructionKill, api.payload)

(***************************************************************************)
(* Candidate scoring.                                                      *)
(***************************************************************************)
\* C19: at the same time, for the same last-seen timestamp and jitter sample,
\* rate_candidate of a candidate is strictly lower when it is disabled than
\* when it is active; and a candidate scores at least as high as the same
\* candidate with twice the average latency.
C19_ScoreMonotone ==
    \A c \in DOMAIN peerCandidates : \A j \in Jitters :
        LET w == World(NoTape)
            active == [w EXCEPT !.cands[c].status = "active"]
            disabled == [w EXCEPT !.cands[c].status = "disabled"]
            doubled == [w EXCEPT !.cands[c].averageLatency = 2 * @]
        IN  /\ ScoreAbove(rate_candidate(active, c, j), rate_candidate(disabled, c, j))
            /\ ~ScoreAbove(rate_candidate(doubled, c, j), rate_candidate(w, c, j))

\* C19 witness: the first peers were picked from a registry that holds a
\* disabled candidate with a measured latency, last seen more than a day ago
C19_DisabledTestedRated ==
    /\ peerCount > 0
    /\ \E c \in DOMAIN peerCandidates :
          /\ peerCandidates[c].status = "disabled"
          /\ peerCandidates[c].averageLatency > 0
          /\ now - peerCandidates[c].timestamp * MsPerSecond > DayMs

(***************************************************************************)
(* One data-exchange tick.                                                 *)
(***************************************************************************)
\* C20: a step that hands a getdata to the socket of a slot finds the peer
\* handshaken and idle with a block missing from the local chain, and leaves
\* the peer's requesting set to the hash it sent (a block is named by its
\* height, which is never 0).
C20_GetdataIffIdle ==
    [][\A p \in Slots :
          ( /\ "getdata" \notin Commands(p)
            /\ "getdata" \in {sock'[p].writes[i] : i \in DOMAIN sock'[p].writes} )
          => /\ is_peer_idle(peers[p])
             /\ chain.tip > chain.full
             /\ peers'[p].requesting \in (chain.full + 1) .. chain.tip
    ]_vars

(***************************************************************************)
(* Address gossip.                                                         *)
(***************************************************************************)
\* the last record of the last addr message that names the address
LastRecordFor(p, ip) ==
    LET l == hist[p].lastAddr
        last == CHOOSE i \in DOMAIN l :
                    l[i].ip = ip /\ \A j \in DOMAIN l : l[j].ip = ip => j <= i
    IN  l[last]

\* C18: after an addr message, every IPv4 address of the message is in the
\* registry with a timestamp that is 7200 seconds below the timestamp of its
\* record in 32-bit unsigned arithmetic (adding 7200 gives the record's
\* timestamp back, and for a record timestamp of 7200 or more the stored one
\* is not above it); nothing is stored under an address that is not IPv4.
C18_AddrGossip ==
    \A p \in Slots :
        /\ \A e \in hist[p].added : is_ipv4(e.ip)
        /\ \A i \in DOMAIN hist[p].lastAddr :
              LET ip == hist[p].lastAddr[i].ip
                  T == LastRecordFor(p, ip).timestamp
              IN  is_ipv4(ip) =>
                     \E e \in hist[p].added :
                         /\ e.ip = ip
                         /\ Add32(e.timestamp, Word32(TwoHours)) = T
                         /\ ~Less32(T, Word32(TwoHours)) => ~Less32(T, e.timestamp)
                         /\ \A f \in hist[p].added : f.ip = ip => f = e

\* C18 witness: an addr message carried an IPv4 record with a timestamp below
\* 7200 and a record that is not IPv4; the first is stored wrapped around
C18_WrappedStored ==
    \E p \in Slots :
        /\ \E i \in DOMAIN hist[p].lastAddr : ~is_ipv4(hist[p].lastAddr[i].ip)
        /\ \E i \in DOMAIN hist[p].lastAddr :
              /\ is_ipv4(hist[p].lastAddr[i].ip)
              /\ Less32(hist[p].lastAddr[i].timestamp, Word32(TwoHours))
        /\ \E e \in hist[p].added : e.timestamp.hi = Half - 1

(***************************************************************************)
(* Traffic before the handshake.                                           *)
(***************************************************************************)
\* C21: while the handshake of a peer is incomplete, the node sends it
\* nothing but version and verack: no pong, getheaders, getdata, getaddr or
\* ping, whatever the peer sends.
C21_OnlyHandshakeTraffic == \A p \in Slots : hist[p].sentUnshaken = {}

(***************************************************************************)
(* The ping tick.                                                          *)
(***************************************************************************)
\* C22: when a ping tick replaces the outstanding ping of a peer by a fresh
\* one, the old ping has contributed at most one latency sample: the one of
\* its pong, or the overdue one recorded by the tick, never more.
C22_OneSamplePerPing == \A p \in Slots : hist[p].prevPingSamples <= 1

(***************************************************************************)
(* What a latency sample measures.                                         *)
(***************************************************************************)
\* C23: pingSent is written by the completion of a ping write only, so a
\* sample recorded for a matching pong is measured from the completion of
\* the write of the ping that carried the nonce: no sample is taken while
\* that write has not completed.
C23_SampleFromOwnPing == \A p \in Slots : ~hist[p].staleSample

(***************************************************************************)
(* The handshake stamp.                                                    *)
(***************************************************************************)
\* C24: every bound slot whose socket is not closing has
\* handshakeStart <= connectionStart + the handshake tolerance.
C24_HandshakeStartBounded ==
    \A p \in Slots :
        (peers[p].candidacy # NoCandidate /\ sock[p].state # "closing")
        => peers[p].handshakeStart <= peers[p].connectionStart + HandshakeTolerance

(***************************************************************************)
(* A header that has not arrived whole.                                    *)
(***************************************************************************)
\* the extraction finds nothing to do on the cache of the slot
FramerAtRest(p) ==
    LET r == extract_message_from_stream_buffer(World(NoTape), p, cache[p])
    IN  r.out = <<>> /\ r.c = cache[p] /\ r.w = World(NoTape)

\* C25: a segment that leaves the buffer, magic at offset 0, with fewer than
\* HeaderSize bytes makes the framer wait.  When the segment extends a buffer
\* that is empty or begins with the magic to fewer than HeaderSize bytes, no
\* message is handed to the handler and the buffer holds the old bytes
\* followed by the new ones; and whenever fewer than HeaderSize bytes are
\* left with no magic further in, running the extraction again changes
\* nothing, whatever lies beyond the cursor.
C25_ShortHeaderWaits ==
    /\ [](\A p \in Slots :
            ( /\ cache[p].bufferIndex < HeaderSize
              /\ find_first_magic(cache[p].buffer, cache[p].bufferIndex) <= 0 )
            => FramerAtRest(p))
    /\ [][\A p \in Slots :
          LET nread == cursor' - cursor
              data == SubSeq(script.bytes, cursor + 1, cursor')
              old == Slice(cache[p].buffer, 0, cache[p].bufferIndex)
              aligned == \/ cache[p].bufferIndex >= MagicSize
                            /\ starts_with_magic(cache[p].buffer, 0)
                         \/ cache[p].bufferIndex = 0 /\ IsPrefix(Magic, data)
          IN  (nread > 0 /\ sock[p].reading /\ aligned
                                    /\ cache[p].bufferIndex + nread < HeaderSize) =>
                      /\ handled' = handled
                      /\ cache'[p].bufferIndex = cache[p].bufferIndex + nread
                      /\ Slice(cache'[p].buffer, 0, cache'[p].bufferIndex) = old \o data
      ]_vars

\* C25 witness: the buffer begins with the magic, holds more than the magic
\* and less than a header, junk lies beyond the cursor, and nothing has been
\* handed to the handler
C25_PartialHeaderBuffered ==
    \E p \in Slots :
        /\ cursor > 0
        /\ handled = <<>>
        /\ cache[p].bufferIndex > MagicSize
        /\ cache[p].bufferIndex < HeaderSize
        /\ starts_with_magic(cache[p].buffer, 0)
        /\ cache[p].buffer[cache[p].bufferIndex] = JunkByte

(***************************************************************************)
(* Write failures.                                                         *)
(***************************************************************************)
\* C26: a peer one of whose writes failed, at submission or at completion,
\* is replaced: replace_peer has been called on it and its socket is closing.
C26_WriteFailureReplaces ==
    \A p \in Slots :
        hist[p].writeFailed => (hist[p].replaceCalls > 0 /\ sock[p].state = "closing")

(***************************************************************************)
(* The scheduler.                                                          *)
(***************************************************************************)
\* C27: the callback of a row whose interval is 0 never runs; the callback
\* of the autoexit row, the only row with onlyOnce, runs at most once; and
\* the callback of every other row with a nonzero interval runs again and
\* again for as long as the loop runs.
C27_Scheduler ==
    /\ [](\A r \in TimerRows : timerTable[r].interval = 0 => timerTable[r].timer.fired = 0)
    /\ [](\A r \in TimerRows : onlyOnce(r) => timerTable[r].timer.fired <= 1)
    /\ \A r \in TimerRows :
          /\ []<>(~loopRunning \/ timerTable[r].interval = 0 \/ onlyOnce(r)
                      \/ timerTable[r].timer.flip)
          /\ []<>(~loopRunning \/ timerTable[r].interval = 0 \/ onlyOnce(r)
                      \/ ~timerTable[r].timer.flip)

\* C27 witness: autoexit has fired once and stopped the loop, a row with
\* interval 0 has not fired, and a repeating row has fired more than once
C27_AutoexitAfterRepeats ==
    /\ ~loopRunning
    /\ timerTable["terminate_main_loop"].timer.fired = 1
    /\ \E r \in TimerRows : timerTable[r].interval = 0 /\ timerTable[r].timer.fired = 0
    /\ \E r \in TimerRows : ~onlyOnce(r) /\ timerTable[r].timer.fired > 1

(***************************************************************************)
(* Closing sockets.                                                        *)
(***************************************************************************)
\* C28: no message is passed to uv_write for a socket that is closing:
\* between replace_peer, or the close after a read error, and the next
\* binding of the slot, neither the ticks nor the handlers send on it.
C28_NothingOnClosingSocket == \A p \in Slots : ~hist[p].sentOnClosing

(***************************************************************************)
(* One slot per candidate.                                                 *)
(***************************************************************************)
\* C29: no two distinct slots of the pool are bound to the same candidate.
C29_DistinctCandidates ==
    \A p, q \in 0 .. (peerCount - 1) :
        (p # q /\ peers[p].candidacy # NoCandidate) => peers[p].candidacy # peers[q].candidacy

=============================================================================
